---- MODULE Spec2Model ----
(***************************************************************************)
(* terrafs: a read-only FUSE file system over an HTTP scenery tree.        *)
(* The model follows src/src/terrafs.cpp: the .dirindex parser (DirIndex), *)
(* the listing cache (TerraFs::dirIndexCache, getDirIndex), the path       *)
(* resolver (getDirIndexEntry) and the five operations readDir, getAttr,   *)
(* open, release and read, dispatched by the FUSE loop on worker threads.  *)
(*                                                                         *)
(* A string is a sequence of symbols.  The symbols "/", ":" and "\n" are   *)
(* the characters the code searches for; a word such as "Airports" stands  *)
(* for a run of other characters and is one symbol.                        *)
(***************************************************************************)
EXTENDS Integers, Sequences, FiniteSets, TLC

(* ---------------------------------------------------------------------- *)
(* Bounds of the model                                                     *)
(* ---------------------------------------------------------------------- *)
NumThreads == 2
MaxBufs == 2
MaxSize == 3
MaxOffset == 3
MaxLines == 3

Threads == 1..NumThreads
Addrs == 1..MaxBufs

(* ---------------------------------------------------------------------- *)
(* Program constants                                                       *)
(* ---------------------------------------------------------------------- *)
HTTP_OK == 200
HTTP_NOT_FOUND == 404
CURL_FAILED == -1
ENOENT == 2
EACCES == 13
O_RDONLY == 0
O_WRONLY == 1
O_RDWR == 2
O_ACCMODE == 3
S_IFDIR == 16384
S_IFREG == 32768
MODE_0544 == 356
MODE_0444 == 292
MODE_0555 == 365
MODE_544 == 544

(* ---------------------------------------------------------------------- *)
(* Strings                                                                 *)
(* ---------------------------------------------------------------------- *)
Min(a, b) == IF a < b THEN a ELSE b

\* std::string::find_last_of(c): the last position of c (1-based), 0 for npos
find_last_of(s, c) ==
    LET hits == {i \in 1..Len(s) : s[i] = c}
    IN  IF hits = {} THEN 0 ELSE CHOOSE i \in hits : \A j \in hits : j <= i

\* the first position of c in s (1-based), 0 when there is none
find_first_of(s, c) ==
    LET hits == {i \in 1..Len(s) : s[i] = c}
    IN  IF hits = {} THEN 0 ELSE CHOOSE i \in hits : \A j \in hits : i <= j

\* std::string::substr(pos) and substr(0, n) on 1-based sequences
substr(s, from, to) == SubSeq(s, from, to)

\* split(s, delim): the getline loop. A piece is pushed for every extraction
\* that reads at least one character (the delimiter counts), so the empty
\* piece after a trailing delimiter is never pushed and "" gives no piece.
RECURSIVE split(_, _)
split(s, delim) ==
    IF s = <<>> THEN <<>>
    ELSE LET i == find_first_of(s, delim)
             item == IF i = 0 THEN s ELSE SubSeq(s, 1, i - 1)
             rest == IF i = 0 THEN <<>> ELSE SubSeq(s, i + 1, Len(s))
         IN  <<item>> \o split(rest, delim)

Digits == <<"0", "1", "2", "3", "4", "5", "6", "7", "8", "9">>
IsDigit(c) == \E d \in 1..10 : Digits[d] = c
DigitVal(c) == (CHOOSE d \in 1..10 : Digits[d] = c) - 1

\* the longest prefix of s made of digits
RECURSIVE DigitPrefix(_)
DigitPrefix(s) ==
    IF s = <<>> \/ ~IsDigit(Head(s)) THEN <<>>
    ELSE <<Head(s)>> \o DigitPrefix(Tail(s))

\* unsigned is 32 bits wide and long is 64. A long is held as four 16-bit
\* limbs, least significant first, so that no intermediate value leaves the
\* 32-bit integers TLC computes with.
UNSIGNED_BITS == 32
Limb == 2^(UNSIGNED_BITS \div 2)
LongZero == <<0, 0, 0, 0>>

\* 10 * v + d on the limbs; over: the result does not fit LONG_MAX
MulAdd(v, d) ==
    LET x1 == 10 * v[1] + d
        x2 == 10 * v[2] + (x1 \div Limb)
        x3 == 10 * v[3] + (x2 \div Limb)
        x4 == 10 * v[4] + (x3 \div Limb)
    IN  [limbs |-> <<x1 % Limb, x2 % Limb, x3 % Limb, x4 % Limb>>,
         over |-> x4 >= Limb \div 2]

RECURSIVE DecimalValue(_, _)
DecimalValue(s, acc) ==
    IF s = <<>> THEN [limbs |-> acc, over |-> FALSE]
    ELSE LET r == MulAdd(acc, DigitVal(Head(s)))
         IN  IF r.over THEN r ELSE DecimalValue(Tail(s), r.limbs)

\* std::stol: converts the leading digits and ignores what follows them;
\* with no digit to convert it throws std::invalid_argument, with a value
\* past LONG_MAX std::out_of_range. The texts of the model carry no blank
\* and no sign, which stol would accept in front of the digits.
stol(s) ==
    LET p == DigitPrefix(s)
        v == DecimalValue(p, LongZero)
    IN  IF p = <<>> \/ v.over THEN [thrown |-> TRUE, value |-> LongZero]
        ELSE [thrown |-> FALSE, value |-> v.limbs]

\* the conversion of a long to unsigned keeps its low 32 bits. The texts of
\* the model keep the result below 2^31, which TLC can hold.
ToUnsigned(v) == v[2] * Limb + v[1]

(* ---------------------------------------------------------------------- *)
(* The .dirindex parser                                                    *)
(* ---------------------------------------------------------------------- *)
DirEntry(data) == [kind |-> "Dir", name |-> data[2]]
\* FileDirIndexEntry: the member "unsigned size" is initialised from the long
\* stol returned
FileEntry(data, sz) == [kind |-> "File", name |-> data[2], size |-> ToUnsigned(sz)]

\* what an out-of-range vector element may read as when the read survives
GarbageStrings == {<<>>, <<"7">>}

\* tokens[i] (0-based in the code, 1-based here): the element, or, past the
\* end of the vector, undefined behaviour: "crash" or any garbage string
TokenAt(tokens, i) ==
    IF i <= Len(tokens) THEN {[crash |-> FALSE, str |-> tokens[i]]}
    ELSE {[crash |-> TRUE, str |-> <<>>]}
         \cup {[crash |-> FALSE, str |-> g] : g \in GarbageStrings}

\* the object under construction; version is <<>> until a version line sets
\* it to <<n>> (the member is not initialised, and the program never reads it)
EmptyDirIndex == [kind |-> "DirIndex", version |-> <<>>, path |-> <<>>, entries |-> <<>>]

\* one iteration of the while loop of DirIndex::DirIndex on one line:
\* the set of possible [status, di] after the line
ParseLine(di, line) ==
    LET tokens == split(line, ":")
        Done(d) == [status |-> "ok", di |-> d]
        Crash == [status |-> "crash", di |-> di]
        Throw == [status |-> "throw", di |-> di]
        OnFirst(t0) ==
            IF t0 = <<"version">> THEN
                {IF t1.crash THEN Crash
                 ELSE IF stol(t1.str).thrown THEN Throw
                 ELSE Done([di EXCEPT !.version = <<ToUnsigned(stol(t1.str).value)>>])
                    : t1 \in TokenAt(tokens, 2)}
            ELSE IF t0 = <<"path">> THEN
                {Done([di EXCEPT !.path = IF Len(tokens) > 2 THEN tokens[2] ELSE <<>>])}
            ELSE IF t0 = <<"d">> THEN
                {IF t1.crash THEN Crash
                 ELSE Done([di EXCEPT !.entries =
                        Append(@, DirEntry(<<t0, t1.str>>))])
                    : t1 \in TokenAt(tokens, 2)}
            ELSE IF t0 = <<"f">> THEN
                {IF t1.crash \/ t3.crash THEN Crash
                 ELSE IF stol(t3.str).thrown THEN Throw
                 ELSE Done([di EXCEPT !.entries =
                        Append(@, FileEntry(<<t0, t1.str>>, stol(t3.str).value))])
                    : t1 \in TokenAt(tokens, 2), t3 \in TokenAt(tokens, 4)}
            ELSE {Done(di)}
    IN  UNION {IF t0.crash THEN {Crash} ELSE OnFirst(t0.str)
                 : t0 \in TokenAt(tokens, 1)}

RECURSIVE ParseLines(_, _)
ParseLines(di, lines) ==
    IF lines = <<>> THEN {[status |-> "ok", di |-> di]}
    ELSE UNION {IF r.status = "ok" THEN ParseLines(r.di, Tail(lines)) ELSE {r}
                  : r \in ParseLine(di, Head(lines))}

\* DirIndex::DirIndex(data): the possible outcomes of the constructor:
\* "ok" with the object built, "throw" (std::invalid_argument out of stol)
\* or "crash" (an out-of-range element read that faults)
NewDirIndex(data) == ParseLines(EmptyDirIndex, split(data, "\n"))

NULL == [kind |-> "NULL"]

\* a find that returns the last entry of that name
find_last(di, name) ==
    LET hits == {i \in 1..Len(di.entries) : di.entries[i].name = name}
    IN  IF hits = {} THEN NULL
        ELSE di.entries[CHOOSE i \in hits : \A j \in hits : j <= i]

\* DirIndex::find(name): the first entry of that name, or NULL
find(di, name) ==
    LET hits == {i \in 1..Len(di.entries) : di.entries[i].name = name}
    IN  IF hits = {} THEN NULL
        ELSE di.entries[CHOOSE i \in hits : \A j \in hits : i <= j]

(* ---------------------------------------------------------------------- *)
(* The remote tree and the inputs of the operations                        *)
(* ---------------------------------------------------------------------- *)
BaseUrl == <<"http://server/scenery">>
Url(path) == BaseUrl \o path

RootPath == <<"/">>
AirportsPath == <<"/", "Airports">>
TerrainPath == <<"/", "Terrain">>
FilePath == <<"/", "Airports", "/", "a.txt">>
BarePath == <<"a.txt">>

\* the paths list-directory is called with, and those of the other operations
DirPaths == {RootPath, AirportsPath}
EntryPaths == {RootPath, AirportsPath, TerrainPath, FilePath, BarePath}

RootText ==
    <<"version", ":", "1", "\n", "path", ":", "\n", "d", ":", "Airports", "\n">>
SubTextA ==
    <<"version", ":", "1", "\n",
      "f", ":", "a.txt", ":", "x", ":", "4", "2", "\n",
      "d", ":", "a.txt", "\n">>
SubTextB ==
    <<"d", ":", "a.txt", "\n",
      "f", ":", "a.txt", ":", "x", ":", "7", "\n",
      "tag", ":", "v2", "\n">>
BadText == <<"version", ":", "1", "\n", "f", ":", "a.txt", ":", "x", ":", "x", "\n">>

\* the bodies the server may send for the .dirindex of a directory URL
RemoteListings(url) ==
    IF url = Url(AirportsPath) THEN {SubTextA, SubTextB, BadText} ELSE {RootText}

\* the bodies the server may send for a file
RemoteFiles == {<<>>, <<"b0", "b1", "b2">>}

\* what Curlie::getFile may return: the HTTP status, or -1 (as unsigned) when
\* curl_easy_init or curl_easy_perform fails
Statuses == {HTTP_OK, HTTP_NOT_FOUND, CURL_FAILED}

Flags == {O_RDONLY, O_WRONLY, O_RDWR}

\* the lines a listing text is made of when the parser is run on its own:
\* the four record types, a file of 2^32 + 42 bytes, an empty line, a record
\* of an unknown type and a file record whose size is no number
VersionLine == <<"version", ":", "1">>
PathLine == <<"path", ":", "Airports", ":", "x">>
DirLine == <<"d", ":", "a.txt">>
FileLine == <<"f", ":", "a.txt", ":", "x", ":", "4", "2">>
BigFileLine ==
    <<"f", ":", "b.bin", ":", "x", ":", "4", "2", "9", "4", "9", "6", "7", "3", "3", "8">>
EmptyLine == <<>>
UnknownLine == <<"tag", ":", "v2">>
BadFileLine == <<"f", ":", "a.txt", ":", "x", ":", "x">>

ListingLines ==
    {VersionLine, PathLine, DirLine, FileLine, BigFileLine, EmptyLine,
     UnknownLine, BadFileLine}

\* the text of a sequence of lines, each ended by a newline
RECURSIVE TextOf(_)
TextOf(lines) ==
    IF lines = <<>> THEN <<>> ELSE Head(lines) \o <<"\n">> \o TextOf(Tail(lines))

ListingTexts ==
    {TextOf(ls) : ls \in UNION {[1..n -> ListingLines] : n \in 0..MaxLines}}

(* ---------------------------------------------------------------------- *)
(* State                                                                   *)
(* ---------------------------------------------------------------------- *)
VARIABLES
    staticRoot,      \* TerraFs::staticRoot
    dirIndexCache,   \* TerraFs::dirIndexCache: url -> DirIndex or NULL
    heap,            \* the live std::string buffers made by open: address -> bytes
    files,           \* the driver's open files: handle (fi->fh) -> path
    pc,              \* per thread: where its operation stands
    call,            \* per thread: the operation and its arguments (with fi)
    content,         \* per thread: open's local pointer "content", 0 when unset
    dirIndex,        \* per thread: the local pointer "dirIndex" getDirIndex returned
    ret,             \* per thread: the operation's return value and output
    net,             \* per thread: the transport's answers to the operation,
                     \* each a [url, res] of one Curlie::getFile call, with
                     \* the body received when it is a listing
    fetches,         \* per .dirindex URL: how often getFile was called for it
    crashed,         \* the process has terminated abnormally
    data,            \* the text handed to a DirIndex constructor run on its own
    outcome,         \* and what that constructor call came to
    failedOpens      \* history: the paths an open of which failed on its
                     \* content fetch

vars == <<staticRoot, dirIndexCache, heap, files, pc, call, content, dirIndex,
          ret, net, fetches, crashed, data, outcome, failedOpens>>

NoCall == [op |-> "none"]
EmptyMap == [k \in {} |-> 0]
MapPut(m, k, v) == [x \in DOMAIN m \cup {k} |-> IF x = k THEN v ELSE m[x]]
\* an erase that leaves the element where it is
MapErase_Keep(m, k) == m

MapErase(m, k) == [x \in DOMAIN m \ {k} |-> m[x]]
NoRet == [code |-> 0, out |-> <<>>]

\* no DirIndex constructed yet
NoOutcome == [status |-> "none"]

\* the file system after TerraFs::TerraFs, lines 288-292
Mounted ==
    /\ staticRoot \in BOOLEAN
    /\ dirIndexCache = EmptyMap
    /\ heap = EmptyMap
    /\ files = EmptyMap
    /\ pc = [t \in Threads |-> "idle"]
    /\ call = [t \in Threads |-> NoCall]
    /\ content = [t \in Threads |-> 0]
    /\ dirIndex = [t \in Threads |-> NULL]
    /\ ret = [t \in Threads |-> NoRet]
    /\ net = [t \in Threads |-> <<>>]
    /\ fetches = EmptyMap
    /\ crashed = FALSE
    /\ failedOpens = {}

Init ==
    /\ Mounted
    /\ data = <<>>
    /\ outcome = NoOutcome

(* ---------------------------------------------------------------------- *)
(* What the operations compute                                             *)
(* ---------------------------------------------------------------------- *)
Stat(mode, nlink, size) == [st_mode |-> mode, st_nlink |-> nlink, st_size |-> size]
ZeroStat == Stat(0, 0, 0)
DirRecord(name, st) == [name |-> name, st |-> st]

\* readDir, lines 314-325: the four fixed records of the static root
StaticRootRecords ==
    LET st == Stat(S_IFDIR + MODE_0544, 1, 0)
    IN  <<DirRecord(<<"Airports">>, st), DirRecord(<<"Objects">>, st),
          DirRecord(<<"Models">>, st), DirRecord(<<"Terrain">>, st)>>

\* a readDir that flags a File as a regular file, as getAttr does
EntryRecord_Regular(e) ==
    DirRecord(e.name,
              IF e.kind = "File" THEN Stat(S_IFREG + MODE_0444, 1, e.size)
              ELSE Stat(S_IFDIR + MODE_544, 1, 0))

\* readDir, lines 335-350: the record filled for one entry
EntryRecord(e) ==
    DirRecord(e.name,
              IF e.kind = "File" THEN Stat(S_IFDIR + MODE_0444, 1, e.size)
              ELSE Stat(S_IFDIR + MODE_544, 1, 0))

\* readDir, lines 328-353, from the listing getDirIndex returned
ReadDirResult(di) ==
    IF di = NULL THEN [code |-> -ENOENT, out |-> <<>>]
    ELSE [code |-> 0,
          out |-> [i \in 1..Len(di.entries) |-> EntryRecord(di.entries[i])]]

\* getAttr, lines 378-393: the paths answered without looking anything up
IsStaticName(path) ==
    \/ path = <<"/", "Airports">>
    \/ path = <<"/", "Objects">>
    \/ path = <<"/", "Models">>
    \/ path = <<"/", "Terrain">>

\* a getAttr that answers the root itself only in static-root mode
IsFixedDir_StaticOnly(sr, path) == sr /\ (path = <<"/">> \/ IsStaticName(path))

\* getAttr, lines 378 and 384-387: root, or a static name in static-root mode
IsFixedDir(sr, path) == path = <<"/">> \/ (sr /\ IsStaticName(path))

\* a readDir that takes the shortcut whatever staticRoot is
IsStaticRoot_Always(sr, path) == path = <<"/">>

\* readDir, line 314: the static-root shortcut applies
IsStaticRoot(sr, path) == sr /\ path = <<"/">>

FixedDirAttr == [code |-> 0, out |-> Stat(S_IFDIR + MODE_0544, 1, 0)]

\* getAttr, lines 396-419, from the entry getDirIndexEntry returned
GetAttrResult(entry) ==
    IF entry = NULL THEN [code |-> -ENOENT, out |-> ZeroStat]
    ELSE IF entry.kind = "File"
         THEN [code |-> 0, out |-> Stat(S_IFREG + MODE_0444, 1, entry.size)]
         ELSE [code |-> 0, out |-> Stat(S_IFDIR + MODE_0555, 1, 0)]

\* memcpy(buf, content->data() + offset, n): the n bytes from offset on; a
\* position past the end of the buffer is not the buffer's and reads as "?"
memcpy(buffer, offset, n) ==
    [i \in 1..n |-> IF offset + i <= Len(buffer) THEN buffer[offset + i] ELSE "?"]

\* a read that does not clamp size to what is left of the buffer
ReadResult_NoClamp(buffer, size, offset) ==
    LET n == IF offset < Len(buffer) THEN size ELSE 0
    IN  [code |-> n, out |-> memcpy(buffer, offset, n)]

\* read, lines 462-475: the bytes copied from the buffer and their count.
\* size and offset stay far below 2^63, as the driver delivers them, so the
\* unsigned sum offset + size does not wrap.
ReadResult(buffer, size, offset) ==
    LET len == Len(buffer)
        n == IF offset < len
             THEN (IF offset + size > len THEN len - offset ELSE size)
             ELSE 0
    IN  [code |-> n, out |-> memcpy(buffer, offset, n)]

\* getDirIndexEntry, lines 359-364: the split of the path at its last "/"
HasSeparator(path) == find_last_of(path, "/") # 0
\* lines 365-366, commented out in the source: an empty parent becomes "/"
Parent_RootSlash(path) ==
    IF find_last_of(path, "/") = 1 THEN <<"/">>
    ELSE substr(path, 1, find_last_of(path, "/") - 1)

Parent(path) == substr(path, 1, find_last_of(path, "/") - 1)
Leaf(path) == substr(path, find_last_of(path, "/") + 1, Len(path))

\* the directory whose listing the call resolves: path itself for readDir
\* (line 327), the parent of path for the others (line 368)
DirOf(c) == IF c.op = "readDir" THEN c.path ELSE Parent(c.path)

\* a lookup that takes a key cached as NULL for a miss
CacheHit_NonNull(cache, url) == url \in DOMAIN cache /\ cache[url] # NULL

\* getDirIndex, lines 298-299: the lookup finds the key
CacheHit(cache, url) == url \in DOMAIN cache

\* an insertion that stores successful listings only
CacheInsert_SkipNull(cache, url, di) == IF di = NULL THEN cache ELSE MapPut(cache, url, di)

\* getDirIndex, line 307: dirIndexCache[url] = di
CacheInsert(cache, url, di) == MapPut(cache, url, di)

\* a failed open that does not free its buffer
DeleteContent_Leak(h, a) == h

\* open, line 435: delete content after a failed fetch
DeleteContent(h, a) == MapErase(h, a)

ListingResource(url) == url \o <<"/", ".dirindex">>

\* a test that takes everything but 404 for success
ContentOk_Not404(res) == res # HTTP_NOT_FOUND

\* open, line 433: the content fetch succeeded when getFile returned 200
ContentOk(res) == res = HTTP_OK

\* an access check that tests the write-only bit alone
AccessOk_Bit0(flags) == (flags % 2) = O_RDONLY

\* open, line 424, and read, line 455: (fi->flags & 3) == O_RDONLY
AccessOk(flags) == (flags % (O_ACCMODE + 1)) = O_RDONLY

(* ---------------------------------------------------------------------- *)
(* Steps of an operation                                                   *)
(* ---------------------------------------------------------------------- *)
\* the operation returns r
Finish(t, c, r) ==
    /\ pc' = [pc EXCEPT ![t] = "done"]
    /\ call' = [call EXCEPT ![t] = c]
    /\ ret' = [ret EXCEPT ![t] = r]

\* an open that goes on to the content fetch without testing entry for NULL
AfterEntry_FetchUnfound(t, c, entry) ==
    IF c.op = "getAttr" THEN
        Finish(t, c, GetAttrResult(entry)) /\ UNCHANGED <<heap, content>>
    ELSE IF c.op = "open" THEN
        \E a \in Addrs \ DOMAIN heap :
            /\ heap' = MapPut(heap, a, <<>>)
            /\ content' = [content EXCEPT ![t] = a]
            /\ pc' = [pc EXCEPT ![t] = "open_getFile"]
            /\ call' = [call EXCEPT ![t] = c]
            /\ UNCHANGED ret
    ELSE IF entry = NULL THEN
        Finish(t, c, [code |-> -ENOENT, out |-> <<>>]) /\ UNCHANGED <<heap, content>>
    ELSE
        Finish(t, c, ReadResult(heap[c.fh], c.size, c.offset))
            /\ UNCHANGED <<heap, content>>

\* getAttr, open and read once getDirIndexEntry has returned entry
AfterEntry(t, c, entry) ==
    IF c.op = "getAttr" THEN
        Finish(t, c, GetAttrResult(entry)) /\ UNCHANGED <<heap, content>>
    ELSE IF entry = NULL THEN
        Finish(t, c, [code |-> -ENOENT, out |-> <<>>]) /\ UNCHANGED <<heap, content>>
    ELSE IF c.op = "open" THEN
        \* line 431: new string, then the content fetch is under way
        \E a \in Addrs \ DOMAIN heap :
            /\ heap' = MapPut(heap, a, <<>>)
            /\ content' = [content EXCEPT ![t] = a]
            /\ pc' = [pc EXCEPT ![t] = "open_getFile"]
            /\ call' = [call EXCEPT ![t] = c]
            /\ UNCHANGED ret
    ELSE
        Finish(t, c, ReadResult(heap[c.fh], c.size, c.offset))
            /\ UNCHANGED <<heap, content>>

\* the operation once getDirIndex has returned di
AfterDirIndex(t, c, di) ==
    /\ dirIndex' = [dirIndex EXCEPT ![t] = di]
    /\ IF c.op = "readDir" THEN
           Finish(t, c, ReadDirResult(di)) /\ UNCHANGED <<heap, content>>
       ELSE
           AfterEntry(t, c, IF di = NULL THEN NULL ELSE find(di, Leaf(c.path)))

\* getDirIndex up to the transport call: a hit returns the cached pointer,
\* a miss leaves the thread in getFile, between the lookup and the insertion
GetDirIndex(t, c) ==
    LET url == Url(DirOf(c))
    IN  IF CacheHit(dirIndexCache, url) THEN
            /\ AfterDirIndex(t, c, dirIndexCache[url])
            /\ UNCHANGED <<net, fetches>>
        ELSE
            /\ pc' = [pc EXCEPT ![t] = "getDirIndex"]
            /\ call' = [call EXCEPT ![t] = c]
            /\ fetches' = MapPut(fetches, ListingResource(url),
                   IF ListingResource(url) \in DOMAIN fetches
                   THEN fetches[ListingResource(url)] + 1 ELSE 1)
            /\ UNCHANGED <<heap, content, dirIndex, ret, net>>

\* getDirIndexEntry: a path without "/" has no parent and resolves to NULL
GetDirIndexEntry(t, c) ==
    IF ~HasSeparator(c.path) THEN
        AfterEntry(t, c, NULL) /\ UNCHANGED <<dirIndex, net, fetches>>
    ELSE GetDirIndex(t, c)

\* the dispatcher hands a request to the first idle worker thread
Idle(t) == ~crashed /\ pc[t] = "idle" /\ \A u \in Threads : u < t => pc[u] # "idle"

\* terrafs_readdir -> TerraFs::readDir
ReadDir(t, paths) ==
    \E path \in paths :
        LET c == [op |-> "readDir", path |-> path]
        IN  /\ Idle(t)
            /\ IF IsStaticRoot(staticRoot, path) THEN
                   /\ Finish(t, c, [code |-> 0, out |-> StaticRootRecords])
                   /\ UNCHANGED <<heap, content, dirIndex, net, fetches>>
               ELSE GetDirIndex(t, c)
            /\ UNCHANGED <<data, outcome, failedOpens>>
            /\ UNCHANGED <<staticRoot, dirIndexCache, files, crashed>>

\* terrafs_getattr -> TerraFs::getAttr
GetAttr(t, paths) ==
    \E path \in paths :
        LET c == [op |-> "getAttr", path |-> path]
        IN  /\ Idle(t)
            /\ IF IsFixedDir(staticRoot, path) THEN
                   /\ Finish(t, c, FixedDirAttr)
                   /\ UNCHANGED <<heap, content, dirIndex, net, fetches>>
               ELSE GetDirIndexEntry(t, c)
            /\ UNCHANGED <<data, outcome, failedOpens>>
            /\ UNCHANGED <<staticRoot, dirIndexCache, files, crashed>>

\* the opens under way or returned and not yet handed to the driver
OpensInFlight == {u \in Threads : call[u].op = "open"}

\* terrafs_open -> TerraFs::open; fi->fh is 0 when the driver calls
Open(t, paths, modes) ==
    \E path \in paths, flags \in modes :
        LET c == [op |-> "open", path |-> path, flags |-> flags, fh |-> 0]
        IN  /\ Idle(t)
            /\ Cardinality(DOMAIN files) + Cardinality(OpensInFlight) < MaxBufs
            /\ IF ~AccessOk(flags) THEN
                   /\ Finish(t, c, [code |-> -EACCES, out |-> <<>>])
                   /\ UNCHANGED <<heap, content, dirIndex, net, fetches>>
               ELSE GetDirIndexEntry(t, c)
            /\ UNCHANGED <<data, outcome, failedOpens>>
            /\ UNCHANGED <<staticRoot, dirIndexCache, files, crashed>>

\* the handles no operation under way is using
FreeHandles == {h \in DOMAIN files : \A u \in Threads : call[u].op \in {"read", "release"} => call[u].fh # h}
ReadableHandles == {h \in DOMAIN files : \A u \in Threads : call[u].op = "release" => call[u].fh # h}

\* terrafs_read -> TerraFs::read, on an open file of the driver
Read(t, modes, sizes, offsets) ==
    \E h \in ReadableHandles, flags \in modes, size \in sizes, offset \in offsets :
        LET c == [op |-> "read", path |-> files[h], flags |-> flags, fh |-> h,
                  size |-> size, offset |-> offset]
        IN  /\ Idle(t)
            /\ IF ~AccessOk(flags) THEN
                   /\ Finish(t, c, [code |-> -EACCES, out |-> <<>>])
                   /\ UNCHANGED <<heap, content, dirIndex, net, fetches>>
               ELSE GetDirIndexEntry(t, c)
            /\ UNCHANGED <<data, outcome, failedOpens>>
            /\ UNCHANGED <<staticRoot, dirIndexCache, files, crashed>>

\* terrafs_release -> TerraFs::release: the driver releases an open file once,
\* when nothing else uses it
Release(t) ==
    \E h \in FreeHandles :
        LET c == [op |-> "release", path |-> files[h], fh |-> h]
        IN  /\ Idle(t)
            /\ heap' = MapErase(heap, h)
            /\ files' = MapErase(files, h)
            /\ Finish(t, c, [code |-> 0, out |-> <<>>])
            /\ UNCHANGED <<data, outcome, failedOpens>>
            /\ UNCHANGED <<staticRoot, dirIndexCache, content, dirIndex, net, fetches,
                           crashed>>

\* getDirIndex, lines 303-308: getFile returns, the listing is parsed on
\* status 200, the pointer is stored under url and the operation goes on.
\* An exception out of the constructor, or a faulting read, ends the process.
GetDirIndexReturn(t) ==
    /\ ~crashed
    /\ pc[t] = "getDirIndex"
    /\ LET url == Url(DirOf(call[t]))
       IN  \E res \in Statuses :
             \E body \in (IF res = HTTP_OK THEN RemoteListings(url) ELSE {<<>>}) :
               \E made \in (IF res = HTTP_OK THEN NewDirIndex(body)
                            ELSE {[status |-> "ok", di |-> NULL]}) :
                 /\ net' = [net EXCEPT ![t] =
                        Append(@, [url |-> ListingResource(url), res |-> res,
                                   body |-> body])]
                 /\ IF made.status = "ok" THEN
                     /\ dirIndexCache' = CacheInsert(dirIndexCache, url, made.di)
                     /\ AfterDirIndex(t, call[t], made.di)
                     /\ UNCHANGED crashed
                    ELSE
                     /\ crashed' = TRUE
                     /\ UNCHANGED <<dirIndexCache, heap, content, dirIndex, pc, call, ret>>
    /\ UNCHANGED <<data, outcome, failedOpens>>
    /\ UNCHANGED <<staticRoot, files, fetches>>

\* open, lines 433-441: getFile(baseUrl + path) returns
OpenGetFileReturn(t, bodies) ==
    /\ ~crashed
    /\ pc[t] = "open_getFile"
    /\ \E res \in Statuses :
         \E body \in (IF res = HTTP_OK THEN bodies ELSE {<<>>}) :
           /\ net' = [net EXCEPT ![t] =
                  Append(@, [url |-> Url(call[t].path), res |-> res])]
           /\ IF ~ContentOk(res) THEN
               /\ heap' = DeleteContent(heap, content[t])
               /\ failedOpens' = failedOpens \cup {call[t].path}
               /\ Finish(t, call[t], [code |-> -ENOENT, out |-> <<>>])
              ELSE
               /\ heap' = MapPut(heap, content[t], body)
               /\ UNCHANGED failedOpens
               /\ Finish(t, [call[t] EXCEPT !.fh = content[t]], [code |-> 0, out |-> <<>>])
    /\ UNCHANGED <<data, outcome>>
    /\ UNCHANGED <<staticRoot, dirIndexCache, files, content, dirIndex, fetches,
                   crashed>>

\* the operation's result goes back to the driver, which records the handle
\* of a successful open
Return(t) ==
    /\ ~crashed
    /\ pc[t] = "done"
    /\ files' = IF call[t].op = "open" /\ ret[t].code = 0
                THEN MapPut(files, call[t].fh, call[t].path) ELSE files
    /\ pc' = [pc EXCEPT ![t] = "idle"]
    /\ call' = [call EXCEPT ![t] = NoCall]
    /\ content' = [content EXCEPT ![t] = 0]
    /\ dirIndex' = [dirIndex EXCEPT ![t] = NULL]
    /\ ret' = [ret EXCEPT ![t] = NoRet]
    /\ net' = [net EXCEPT ![t] = <<>>]
    /\ UNCHANGED <<data, outcome, failedOpens>>
    /\ UNCHANGED <<staticRoot, dirIndexCache, heap, fetches, crashed>>

\* std::map is not synchronised: while one thread is about to insert, another
\* thread that is about to insert or free to start a lookup may touch the map
\* at the same time, which is undefined behaviour; beside the interleavings of
\* whole accesses the process may fault
MapRace(t, u) ==
    /\ ~crashed
    /\ t # u
    /\ pc[t] = "getDirIndex"
    /\ pc[u] \in {"idle", "getDirIndex"}
    /\ crashed' = TRUE
    /\ UNCHANGED <<data, outcome, failedOpens>>
    /\ UNCHANGED <<staticRoot, dirIndexCache, heap, files, pc, call, content,
                   dirIndex, ret, net, fetches>>

\* the multi-threaded FUSE loop: operations of different threads interleave;
\* the requests are drawn from the narrower input sets
ConcDirPaths == {RootPath, AirportsPath}
ConcEntryPaths == {RootPath, AirportsPath, FilePath}
ConcOpenPaths == {FilePath}
ConcFlags == {O_RDONLY, O_WRONLY}
ConcSizes == {MaxSize}
ConcOffsets == {0, MaxOffset}
ConcFiles == {<<"b0", "b1", "b2">>}

Next ==
    \/ \E t \in Threads : ReadDir(t, ConcDirPaths)
    \/ \E t \in Threads : GetAttr(t, ConcEntryPaths)
    \/ \E t \in Threads : Open(t, ConcOpenPaths, ConcFlags)
    \/ \E t \in Threads : Read(t, ConcFlags, ConcSizes, ConcOffsets)
    \/ \E t \in Threads : Release(t)
    \/ \E t \in Threads : GetDirIndexReturn(t)
    \/ \E t \in Threads : OpenGetFileReturn(t, ConcFiles)
    \/ \E t \in Threads : Return(t)
    \/ \E t, u \in Threads : MapRace(t, u)

Spec == Init /\ [][Next]_vars

\* operations run one at a time (the single-threaded loop, fuse -s), with the
\* full input sets
AllIdle == \A u \in Threads : pc[u] = "idle"

SeqNext ==
    \/ \E t \in Threads : AllIdle /\ ReadDir(t, DirPaths)
    \/ \E t \in Threads : AllIdle /\ GetAttr(t, EntryPaths)
    \/ \E t \in Threads : AllIdle /\ Open(t, EntryPaths, Flags)
    \/ \E t \in Threads : AllIdle /\ Read(t, Flags, 0..MaxSize, 0..MaxOffset)
    \/ \E t \in Threads : AllIdle /\ Release(t)
    \/ \E t \in Threads : GetDirIndexReturn(t)
    \/ \E t \in Threads : OpenGetFileReturn(t, RemoteFiles)
    \/ \E t \in Threads : Return(t)

SeqSpec == Init /\ [][SeqNext]_vars

\* the parser on its own: DirIndex::DirIndex is run once on a listing text
ParseInit ==
    /\ Mounted
    /\ data \in ListingTexts
    /\ outcome = NoOutcome

\* new DirIndex(data), line 306
Construct ==
    /\ outcome = NoOutcome
    /\ outcome' \in NewDirIndex(data)
    /\ UNCHANGED <<data, failedOpens, staticRoot, dirIndexCache, heap, files, pc,
                   call, content, dirIndex, ret, net, fetches, crashed>>

ParseNext == Construct

ParseSpec == ParseInit /\ [][ParseNext]_vars

(* ---------------------------------------------------------------------- *)
(* Properties                                                              *)
(* ---------------------------------------------------------------------- *)
Last(q) == q[Len(q)]
IsListingUrl(u) == Len(u) >= 2 /\ SubSeq(u, Len(u) - 1, Len(u)) = <<"/", ".dirindex">>
ListingExchanges(t) == {i \in 1..Len(net[t]) : IsListingUrl(net[t][i].url)}

\* thread t starts an operation in this step
Starts(t) == pc[t] = "idle" /\ pc'[t] # "idle"

\* the call c is an operation on the directory cached under url: a
\* list-directory of it, or a get-attributes, open or read of a path under it
IsUnder(c, url) ==
    \/ c.op = "readDir" /\ Url(c.path) = url
    \/ c.op \in {"getAttr", "open", "read"} /\ HasSeparator(c.path)
           /\ Url(Parent(c.path)) = url

FixedNames ==
    {<<"/", "Airports">>, <<"/", "Objects">>, <<"/", "Models">>, <<"/", "Terrain">>}

\* the call c is answered before any path resolution: with PermissionDenied,
\* or as one of the fixed directories (root, static-root names, static root)
AnsweredEarly(c) ==
    \/ c.op \in {"open", "read"} /\ (c.flags % 4) # 0
    \/ c.op = "getAttr" /\ (c.path = RootPath \/ (staticRoot /\ c.path \in FixedNames))
    \/ c.op = "readDir" /\ staticRoot /\ c.path = RootPath

\* C1: when operations run one at a time, the transport is asked for the
\* listing resource of any directory URL at most once; a cached URL was
\* fetched exactly once, whatever number of operations resolved it.
C1_AtMostOnceFetch ==
    /\ \A r \in DOMAIN fetches : fetches[r] <= 1
    /\ \A url \in DOMAIN dirIndexCache :
          ListingResource(url) \in DOMAIN fetches /\ fetches[ListingResource(url)] = 1
    /\ \A t \in Threads : Cardinality(ListingExchanges(t)) <= 1

\* C1 witness: an open of /Airports/a.txt was resolved from the cache, with
\* no listing fetch of its own, after an earlier operation fetched /Airports
C1_Witness ==
    \E t \in Threads :
        /\ pc[t] = "done" /\ call[t].op = "open" /\ call[t].path = FilePath
        /\ ret[t].code = 0
        /\ ListingExchanges(t) = {}
        /\ fetches[ListingResource(Url(AirportsPath))] = 1

\* the negative-caching step property, for the calls in Covered
NegativeCaching(Covered(_)) ==
    /\ \A t \in Threads :
          (pc[t] = "getDirIndex" /\ pc'[t] # "getDirIndex" /\ Last(net'[t]).res # HTTP_OK)
          => /\ Url(DirOf(call[t])) \in DOMAIN dirIndexCache'
             /\ dirIndexCache'[Url(DirOf(call[t]))] = NULL
             /\ pc'[t] = "done" /\ ret'[t].code = -ENOENT
    /\ \A url \in DOMAIN dirIndexCache :
          dirIndexCache[url] = NULL
          => \A t \in Threads :
                (Starts(t) /\ IsUnder(call'[t], url) /\ Covered(call'[t]))
                => /\ pc'[t] = "done"
                   /\ ret'[t].code = -ENOENT
                   /\ net'[t] = <<>>
                   /\ fetches' = fetches
                   /\ dirIndexCache' = dirIndexCache

ReachesResolution(c) == ~AnsweredEarly(c)
AnyCall(c) == TRUE

\* C2 (as amended): a listing fetch that returns a status other than 200, or
\* fails in the transport, caches the URL as absent and the operation returns
\* NotFound; every later list-directory of the directory and every later
\* get-attributes, open or read of a path under it that reaches the cache
\* lookup and finds the URL cached as absent returns NotFound with no network
\* access and the cache unchanged, whatever the server would answer now.
C2_NegativeCaching == [][NegativeCaching(ReachesResolution)]_vars

\* C2 as stated: every later operation under the directory returns NotFound,
\* also an open for writing and a get-attributes of a static-root name.
C2_Original == [][NegativeCaching(AnyCall)]_vars

\* C2 witness: /Airports is cached as absent and a later get-attributes of
\* /Airports/a.txt has returned NotFound without asking the transport
C2_Witness ==
    \E t \in Threads :
        /\ pc[t] = "done" /\ call[t].op = "getAttr" /\ call[t].path = FilePath
        /\ ret[t].code = -ENOENT
        /\ net[t] = <<>>
        /\ Url(AirportsPath) \in DOMAIN dirIndexCache
        /\ dirIndexCache[Url(AirportsPath)] = NULL

\* C3: once a URL is in the listing cache its value never changes, also when
\* operations run concurrently.
C3_WriteOnce ==
    [][\A url \in DOMAIN dirIndexCache :
          url \in DOMAIN dirIndexCache' /\ dirIndexCache'[url] = dirIndexCache[url]]_vars

\* C4: no two threads are at the same time between the lookup and the
\* insertion of getDirIndex.
C4_MutualExclusion == Cardinality({t \in Threads : pc[t] = "getDirIndex"}) <= 1

\* C5: a read on an open handle with a buffer of length L returns 0 bytes
\* when offset >= L and else exactly min(size, L - offset) bytes, the bytes
\* of the buffer from position offset on; no position past L - 1 is copied.
C5_OffsetBoundedRead ==
    \A t \in Threads :
        (pc[t] = "done" /\ call[t].op = "read" /\ (call[t].flags % 4) = 0)
        => LET buf == heap[call[t].fh]
               L == Len(buf)
               off == call[t].offset
               n == IF off >= L THEN 0 ELSE Min(call[t].size, L - off)
           IN  /\ ret[t].code = n
               /\ Len(ret[t].out) = n
               /\ \A i \in 1..n : off + i <= L /\ ret[t].out[i] = buf[off + i]

\* C5 witness: a read of 3 bytes at offset 1 of a 3-byte buffer returned 2
C5_Witness ==
    \E t \in Threads :
        /\ pc[t] = "done" /\ call[t].op = "read" /\ (call[t].flags % 4) = 0
        /\ Len(heap[call[t].fh]) = 3 /\ call[t].offset = 1 /\ call[t].size = 3
        /\ ret[t].code = 2

\* the last answer of the transport to t is a content fetch that failed
ContentFetchFailed(t) ==
    /\ net[t] # <<>>
    /\ ~IsListingUrl(Last(net[t]).url)
    /\ Last(net[t]).res # HTTP_OK

\* C6: an open whose entry was found and whose content fetch returned a
\* non-success status returns NotFound, leaves the handle field as the
\* caller set it (0) and leaves no buffer of its own alive: the live
\* buffers are those of the driver's open files.
C6_FailedOpenAllocatesNothing ==
    \A t \in Threads :
        (pc[t] = "done" /\ call[t].op = "open" /\ ContentFetchFailed(t))
        => /\ ret[t].code = -ENOENT
           /\ call[t].fh = 0
           /\ content[t] \notin DOMAIN heap
           /\ DOMAIN heap = DOMAIN files

\* C6 witness: an open of /Airports/a.txt failed on its content fetch while
\* another file is open
C6_Witness ==
    \E t \in Threads :
        /\ pc[t] = "done" /\ call[t].op = "open" /\ call[t].path = FilePath
        /\ ContentFetchFailed(t)
        /\ ret[t].code = -ENOENT
        /\ DOMAIN files # {}

\* C7: an open or read with an access mode other than read-only returns
\* PermissionDenied at once: no listing fetch, no content fetch, the cache
\* unchanged, no buffer allocated and the handle field untouched.
C7_PermissionFirst ==
    [][\A t \in Threads :
          (Starts(t) /\ call'[t].op \in {"open", "read"} /\ (call'[t].flags % 4) # 0)
          => /\ pc'[t] = "done"
             /\ ret'[t].code = -EACCES
             /\ net'[t] = <<>>
             /\ fetches' = fetches
             /\ dirIndexCache' = dirIndexCache
             /\ heap' = heap
             /\ content'[t] = 0
             /\ (call'[t].op = "open" => call'[t].fh = 0)]_vars

\* C7 witness: a read with O_RDWR on an open file was refused
C7_Witness ==
    \E t \in Threads :
        /\ pc[t] = "done" /\ call[t].op = "read" /\ call[t].flags = O_RDWR
        /\ ret[t].code = -EACCES
        /\ net[t] = <<>>

FileType(mode) == ((mode \div 4096) % 16) * 4096

\* C8: get-attributes("/") returns success with directory type and link
\* count 1 in every state, with no network access and the cache unchanged.
C8_RootAttributes ==
    [][\A t \in Threads :
          (Starts(t) /\ call'[t].op = "getAttr" /\ call'[t].path = RootPath)
          => /\ pc'[t] = "done"
             /\ ret'[t].code = 0
             /\ FileType(ret'[t].out.st_mode) = S_IFDIR
             /\ ret'[t].out.st_nlink = 1
             /\ net'[t] = <<>>
             /\ fetches' = fetches
             /\ dirIndexCache' = dirIndexCache]_vars

\* C8 witness: get-attributes("/") succeeded with staticRoot off and the
\* root cached as absent under both of its keys
C8_Witness ==
    \E t \in Threads :
        /\ pc[t] = "done" /\ call[t].op = "getAttr" /\ call[t].path = RootPath
        /\ ret[t].code = 0
        /\ ~staticRoot
        /\ Url(<<>>) \in DOMAIN dirIndexCache /\ dirIndexCache[Url(<<>>)] = NULL
        /\ Url(RootPath) \in DOMAIN dirIndexCache /\ dirIndexCache[Url(RootPath)] = NULL

Names(records) == [i \in 1..Len(records) |-> records[i].name]

\* C9: with staticRoot on, list-directory("/") returns the names Airports,
\* Objects, Models, Terrain in that order with no network access and the
\* cache unchanged; with staticRoot off it goes through the listing cache,
\* fetching on a miss, and returns NotFound when the listing is absent.
C9_StaticRoot ==
    [][\A t \in Threads :
          LET url == Url(RootPath)
              mine == call'[t].op = "readDir" /\ call'[t].path = RootPath
          IN  /\ (Starts(t) /\ mine /\ staticRoot)
                 => /\ pc'[t] = "done"
                    /\ ret'[t].code = 0
                    /\ Names(ret'[t].out) =
                          <<(<<"Airports">>), (<<"Objects">>), (<<"Models">>), (<<"Terrain">>)>>
                    /\ net'[t] = <<>>
                    /\ fetches' = fetches
                    /\ dirIndexCache' = dirIndexCache
              /\ (Starts(t) /\ mine /\ ~staticRoot /\ url \notin DOMAIN dirIndexCache)
                 => /\ pc'[t] = "getDirIndex"
                    /\ ListingResource(url) \in DOMAIN fetches'
                    /\ fetches'[ListingResource(url)] =
                          1 + (IF ListingResource(url) \in DOMAIN fetches
                               THEN fetches[ListingResource(url)] ELSE 0)
              /\ (Starts(t) /\ mine /\ ~staticRoot /\ url \in DOMAIN dirIndexCache)
                 => /\ pc'[t] = "done"
                    /\ fetches' = fetches
                    /\ (ret'[t].code = -ENOENT) = (dirIndexCache[url] = NULL)
              /\ (pc[t] = "getDirIndex" /\ pc'[t] = "done" /\ mine)
                 => /\ ~staticRoot
                    /\ url \in DOMAIN dirIndexCache'
                    /\ (ret'[t].code = -ENOENT) = (dirIndexCache'[url] = NULL)
                    /\ (ret'[t].code = 0) = (dirIndexCache'[url] # NULL)]_vars

\* C9 witness: list-directory("/") answered with the four names in
\* static-root mode while nothing is cached and nothing was fetched
C9_Witness ==
    \E t \in Threads :
        /\ pc[t] = "done" /\ call[t].op = "readDir" /\ call[t].path = RootPath
        /\ staticRoot
        /\ Len(ret[t].out) = 4
        /\ DOMAIN fetches = {}

\* thread t's operation returns in this step
Finishes(t) == pc[t] # "done" /\ pc'[t] = "done"

\* the step in which a get-attributes call in Covered returns follows the
\* first entry named like the leaf in the parent listing: the cached one when
\* the call is answered at once, the one just fetched and stored otherwise
FirstMatch(Covered(_)) ==
    \A t \in Threads :
        LET c == call'[t]
            url == Url(Parent(c.path))
            cache == IF pc[t] = "idle" THEN dirIndexCache ELSE dirIndexCache'
        IN  (/\ Finishes(t) /\ c.op = "getAttr"
             /\ c.path # RootPath /\ HasSeparator(c.path)
             /\ Covered(c)
             /\ url \in DOMAIN cache
             /\ cache[url] # NULL)
            => LET es == cache[url].entries
                   same == {i \in 1..Len(es) : es[i].name = Leaf(c.path)}
               IN  IF same = {} THEN ret'[t].code = -ENOENT
                   ELSE LET e == es[CHOOSE i \in same : \A j \in same : i <= j]
                        IN  /\ ret'[t].code = 0
                            /\ e.kind = "File" =>
                                  /\ FileType(ret'[t].out.st_mode) = S_IFREG
                                  /\ ret'[t].out.st_size = e.size
                            /\ e.kind = "Dir" =>
                                  /\ FileType(ret'[t].out.st_mode) = S_IFDIR
                                  /\ ret'[t].out.st_size = 0

NotStaticName(c) == ~(staticRoot /\ c.path \in FixedNames)

\* C10 (as amended): for a non-root path that is not one of the four fixed
\* names in static-root mode and whose parent listing is present,
\* get-attributes returns NotFound if no entry is named like the leaf, and
\* else regular-file attributes with the size of the first such entry if it
\* is a File, directory attributes with size 0 if it is a Directory.
C10_FirstMatch == [][FirstMatch(NotStaticName)]_vars

\* C10 as stated: for every non-root path whose parent listing is present.
C10_Original == [][FirstMatch(AnyCall)]_vars

\* C10 witness: the listing has a Directory and then a File named a.txt, and
\* get-attributes of /Airports/a.txt returned directory attributes
C10_Witness ==
    \E t \in Threads :
        /\ pc[t] = "done" /\ call[t].op = "getAttr" /\ call[t].path = FilePath
        /\ Url(AirportsPath) \in DOMAIN dirIndexCache
        /\ dirIndexCache[Url(AirportsPath)] # NULL
        /\ LET es == dirIndexCache[Url(AirportsPath)].entries
           IN  /\ Len(es) = 2
               /\ es[1].name = es[2].name
               /\ es[1].kind = "Dir" /\ es[2].kind = "File"
        /\ FileType(ret[t].out.st_mode) = S_IFDIR

(* ---------------------------------------------------------------------- *)
(* Properties of the parser                                                *)
(* ---------------------------------------------------------------------- *)
Lines(text) == split(text, "\n")
IsInteger(tok) == tok # <<>> /\ \A i \in 1..Len(tok) : IsDigit(tok[i])

\* the decimal digits of n
RECURSIVE Decimal(_)
Decimal(n) ==
    IF n < 10 THEN <<Digits[n + 1]>>
    ELSE Decimal(n \div 10) \o <<Digits[(n % 10) + 1]>>

\* tok without its leading zeros
RECURSIVE Canonical(_)
Canonical(tok) ==
    IF Len(tok) > 1 /\ Head(tok) = "0" THEN Canonical(Tail(tok)) ELSE tok

IsEntryLine(line) ==
    LET tk == split(line, ":")
    IN  tk # <<>> /\ tk[1] \in {<<"d">>, <<"f">>}

\* a line of one of the four record types with every field it needs
WellFormedLine(line) ==
    LET tk == split(line, ":")
    IN  /\ tk # <<>>
        /\ \/ tk[1] = <<"version">> /\ Len(tk) >= 2 /\ IsInteger(tk[2])
           \/ tk[1] = <<"path">>
           \/ tk[1] = <<"d">> /\ Len(tk) >= 2 /\ tk[2] # <<>>
           \/ tk[1] = <<"f">> /\ Len(tk) >= 4 /\ tk[2] # <<>> /\ IsInteger(tk[4])

WellFormed(text) == \A i \in 1..Len(Lines(text)) : WellFormedLine(Lines(text)[i])

\* the entries es are the 'd' and 'f' lines of text, in order: a Directory
\* named by the second token, a File named by the second token whose size is
\* the integer written in the fourth
EntriesOf(es, text) ==
    LET ls == SelectSeq(Lines(text), IsEntryLine)
    IN  /\ Len(es) = Len(ls)
        /\ \A i \in 1..Len(ls) :
              LET tk == split(ls[i], ":")
              IN  /\ es[i].name = tk[2]
                  /\ tk[1] = <<"d">> => es[i].kind = "Dir"
                  /\ tk[1] = <<"f">> =>
                        /\ es[i].kind = "File"
                        /\ Decimal(es[i].size) = Canonical(tk[4])

\* C11: for every well-formed listing text the constructor succeeds and the
\* parsed entries are exactly the 'd' and 'f' lines of the text, in source
\* order and with duplicates kept; a 'd' line gives a Directory named by its
\* second token, an 'f' line a File named by its second token with size equal
\* to the integer in its fourth token; version and path lines add no entry.
C11_ParserOutput ==
    (outcome # NoOutcome /\ WellFormed(data))
    => /\ outcome.status = "ok"
       /\ EntriesOf(outcome.di.entries, data)

\* a version line or a file record of text lacks its number or carries
\* something that is no number
HasBadNumber(text) ==
    \E i \in 1..Len(Lines(text)) :
        LET tk == split(Lines(text)[i], ":")
        IN  /\ tk # <<>>
            /\ \/ tk[1] = <<"version">> /\ (Len(tk) < 2 \/ ~IsInteger(tk[2]))
               \/ tk[1] = <<"f">> /\ (Len(tk) < 4 \/ ~IsInteger(tk[4]))

\* C12: when a listing is fetched with status 200 and its text has a
\* non-numeric or missing version or file-size field, the process keeps
\* running, the directory URL is cached as absent and the operation that
\* triggered the fetch returns NotFound.
C12_MalformedLikeMissing ==
    [][\A t \in Threads :
          (/\ pc[t] = "getDirIndex" /\ net'[t] # net[t]
           /\ Last(net'[t]).res = HTTP_OK
           /\ HasBadNumber(Last(net'[t]).body))
          => LET url == Url(DirOf(call[t]))
             IN  /\ ~crashed'
                 /\ url \in DOMAIN dirIndexCache'
                 /\ dirIndexCache'[url] = NULL
                 /\ pc'[t] = "done"
                 /\ ret'[t].code = -ENOENT]_vars

(* ---------------------------------------------------------------------- *)
(* Properties of the operations, continued                                 *)
(* ---------------------------------------------------------------------- *)
\* C13: when the listing for path is present and the static-root shortcut
\* does not apply, list-directory succeeds and emits exactly one record per
\* entry of the listing, in listing order, duplicates included; every record
\* carries the directory type flag, the record of a File carries the size of
\* the entry and the record of a Directory carries size 0.
C13_ReadDirShape ==
    \A t \in Threads :
        (/\ pc[t] = "done" /\ call[t].op = "readDir"
         /\ ~(staticRoot /\ call[t].path = RootPath)
         /\ dirIndex[t] # NULL)
        => LET es == dirIndex[t].entries
               out == ret[t].out
           IN  /\ ret[t].code = 0
               /\ Len(out) = Len(es)
               /\ \A i \in 1..Len(es) :
                     /\ out[i].name = es[i].name
                     /\ FileType(out[i].st.st_mode) = S_IFDIR
                     /\ es[i].kind = "File" => out[i].st.st_size = es[i].size
                     /\ es[i].kind = "Dir" => out[i].st.st_size = 0

\* C13 witness: list-directory of /Airports returned two records of the same
\* name, the first for a File of 42 bytes, from the listing in the cache
C13_Witness ==
    \E t \in Threads :
        /\ pc[t] = "done" /\ call[t].op = "readDir" /\ call[t].path = AirportsPath
        /\ dirIndex[t] # NULL
        /\ dirIndexCache[Url(AirportsPath)] = dirIndex[t]
        /\ Len(ret[t].out) = 2
        /\ ret[t].out[1].name = ret[t].out[2].name
        /\ dirIndex[t].entries[1].kind = "File"
        /\ ret[t].out[1].st.st_size = 42

\* thread t's open returns from its content fetch in this step
ContentFetchReturns(t) == pc[t] = "open_getFile" /\ pc'[t] = "done"

\* C14: an open whose content fetch returns a non-success status returns
\* NotFound and leaves the listing cache as it was, the parent listing
\* present in it; a later read-only open of a path whose content fetch
\* failed before issues a content fetch again, without a listing fetch, and
\* succeeds with the fetched bytes as its buffer if that fetch returns 200.
C14_FailureNotCached ==
    [][\A t \in Threads :
          LET url == Url(Parent(call'[t].path))
          IN  /\ (ContentFetchReturns(t) /\ Last(net'[t]).res # HTTP_OK)
                 => /\ ret'[t].code = -ENOENT
                    /\ dirIndexCache' = dirIndexCache
                    /\ url \in DOMAIN dirIndexCache'
                    /\ dirIndexCache'[url] # NULL
                    /\ find(dirIndexCache'[url], Leaf(call'[t].path)) # NULL
              /\ (/\ Starts(t) /\ call'[t].op = "open"
                  /\ call'[t].path \in failedOpens
                  /\ (call'[t].flags % 4) = O_RDONLY)
                 => /\ pc'[t] = "open_getFile"
                    /\ fetches' = fetches
                    /\ net'[t] = <<>>
              /\ (/\ ContentFetchReturns(t) /\ call'[t].path \in failedOpens
                  /\ Last(net'[t]).res = HTTP_OK)
                 => /\ ret'[t].code = 0
                    /\ call'[t].fh \in DOMAIN heap'
                    /\ call'[t].fh \notin DOMAIN files]_vars

\* C14 witness: an open of /Airports/a.txt succeeds on a fresh content fetch
\* after an earlier open of it failed on its content fetch
C14_Witness ==
    \E t \in Threads :
        /\ pc[t] = "done" /\ call[t].op = "open" /\ call[t].path = FilePath
        /\ FilePath \in failedOpens
        /\ ret[t].code = 0
        /\ Len(net[t]) = 1 /\ net[t][1].url = Url(FilePath) /\ net[t][1].res = HTTP_OK
        /\ heap[call[t].fh] = <<"b0", "b1", "b2">>

\* the key the claim names for the call c: baseUrl + path for list-directory,
\* baseUrl + the text before the last separator of path for the others
ClaimedKey(c) ==
    IF c.op = "readDir" THEN BaseUrl \o c.path
    ELSE BaseUrl \o SubSeq(c.path, 1, find_last_of(c.path, "/") - 1)

\* C15: every step of every operation leaves the cache entries that exist
\* unchanged; an operation adds at most one key, with its one listing
\* exchange, and that key is baseUrl + parent(path) for get-attributes, open
\* and read and baseUrl + path for list-directory; release, get-attributes of
\* "/", the static-root shortcuts and the operations refused with
\* PermissionDenied return at once with the cache as it was.
C15_CacheFrame ==
    [][/\ \A url \in DOMAIN dirIndexCache :
             url \in DOMAIN dirIndexCache' /\ dirIndexCache'[url] = dirIndexCache[url]
       /\ LET added == DOMAIN dirIndexCache' \ DOMAIN dirIndexCache
          IN  added # {}
              => \E t \in Threads :
                    /\ pc[t] = "getDirIndex" /\ pc'[t] # "getDirIndex"
                    /\ net[t] = <<>> /\ Len(net'[t]) = 1
                    /\ call[t].op \in {"readDir", "getAttr", "open", "read"}
                    /\ ~AnsweredEarly(call[t])
                    /\ added = {ClaimedKey(call[t])}
       /\ \A t \in Threads :
             (Starts(t) /\ (call'[t].op = "release" \/ AnsweredEarly(call'[t])))
             => pc'[t] = "done" /\ dirIndexCache' = dirIndexCache]_vars

\* C15 witness: with the listing of "/" in the cache, a get-attributes of
\* /Airports/a.txt has fetched and added the key of /Airports, and that of
\* "/" is still there
C15_Witness ==
    \E t \in Threads :
        /\ pc[t] = "done" /\ call[t].op = "getAttr" /\ call[t].path = FilePath
        /\ Len(net[t]) = 1
        /\ DOMAIN dirIndexCache = {Url(RootPath), Url(AirportsPath)}
        /\ dirIndexCache[Url(RootPath)] # NULL

\* C16: in every interleaving of concurrently running operations, a
\* read-only read on a handle that open returned and release has not yet
\* taken succeeds (never NotFound), asks the network for nothing and returns
\* bytes of the buffer fetched at open time.
C16_OpenFileReadable ==
    \A t \in Threads :
        (call[t].op = "read" /\ (call[t].flags % 4) = O_RDONLY)
        => /\ pc[t] = "done"
           /\ ret[t].code >= 0
           /\ net[t] = <<>>
           /\ ret[t].out = memcpy(heap[call[t].fh], call[t].offset, ret[t].code)

\* the directory a non-root path lies in: "/" for "/name"
DirectoryOf(path) ==
    IF find_last_of(path, "/") = 1 THEN RootPath
    ELSE SubSeq(path, 1, find_last_of(path, "/") - 1)

\* the call c resolves a child path of some directory through the cache
ResolvesChild(c) ==
    /\ c.op \in {"getAttr", "open", "read"}
    /\ ~AnsweredEarly(c)
    /\ HasSeparator(c.path) /\ c.path # RootPath

\* the paths resolved in directory D that the model calls with
ChildrenOf(D) == {p \in EntryPaths \ {RootPath} : HasSeparator(p) /\ DirectoryOf(p) = D}

\* C17: list-directory(D) and the resolution of a child path of D use the
\* same cache key, for every directory D, the root included: once the key
\* list-directory(D) uses is in the cache, resolving a child of D performs no
\* listing fetch, and once the resolution of a child of D has cached the
\* listing of D, list-directory(D) performs none.
C17_OneKeyPerDirectory ==
    [][\A t \in Threads :
          /\ (/\ Starts(t) /\ ResolvesChild(call'[t])
              /\ Url(DirectoryOf(call'[t].path)) \in DOMAIN dirIndexCache)
             => pc'[t] # "getDirIndex" /\ fetches' = fetches
          /\ (/\ Starts(t) /\ call'[t].op = "readDir" /\ ~AnsweredEarly(call'[t])
              /\ \E p \in ChildrenOf(call'[t].path) : Url(Parent(p)) \in DOMAIN dirIndexCache)
             => pc'[t] # "getDirIndex" /\ fetches' = fetches]_vars

\* the buffers of the opens under way: allocated, the content fetch pending
PendingBuffers == {content[t] : t \in {u \in Threads : pc[u] = "open_getFile"}}

\* the handles of the opens that have succeeded and are about to return
ReturnedHandles ==
    {call[t].fh : t \in {u \in Threads :
                            pc[u] = "done" /\ call[u].op = "open" /\ ret[u].code = 0}}

\* C18: the live content buffers are exactly the handles of the successful
\* opens not yet released (and, while an open is fetching, its one buffer);
\* a successful open returns one new buffer distinct from the live ones, a
\* release removes exactly the buffer of its handle, and after a
\* list-directory, get-attributes, read or failed open the live buffers are
\* the open handles as before.
C18_HandleAccounting ==
    /\ DOMAIN heap = DOMAIN files \cup PendingBuffers \cup ReturnedHandles
    /\ DOMAIN files \cap (PendingBuffers \cup ReturnedHandles) = {}
    /\ PendingBuffers \cap ReturnedHandles = {}
    /\ 0 \notin DOMAIN heap
    /\ \A t \in Threads :
          /\ (pc[t] = "done" /\ call[t].op = "release")
             => call[t].fh \notin DOMAIN heap /\ call[t].fh \notin DOMAIN files
          /\ (/\ pc[t] = "done"
              /\ \/ call[t].op \in {"readDir", "getAttr", "read"}
                 \/ call[t].op = "open" /\ ret[t].code # 0)
             => content[t] \notin DOMAIN heap
    /\ AllIdle => DOMAIN heap = DOMAIN files

\* C18 witness: of two open files one has just been released; one buffer is
\* left, that of the other handle
C18_Witness ==
    \E t \in Threads :
        /\ pc[t] = "done" /\ call[t].op = "release"
        /\ Cardinality(DOMAIN files) = 1
        /\ DOMAIN heap = DOMAIN files
        /\ call[t].fh \notin DOMAIN heap

\* a line that is empty or whose first token is none of the record types
Ignorable(line) ==
    LET tk == split(line, ":")
    IN  tk = <<>> \/ tk[1] \notin {<<"version">>, <<"path">>, <<"d">>, <<"f">>}

Kept(line) == ~Ignorable(line)

\* text without its ignorable lines
Stripped(text) == TextOf(SelectSeq(Lines(text), Kept))

\* C19: for every listing text, the lines that are empty or whose first
\* token is not one of version, path, d, f are skipped without failing the
\* parse: what the constructor comes to on the text is what it comes to on
\* the same text with those lines removed.
C19_IgnoredLines ==
    outcome # NoOutcome => outcome \in NewDirIndex(Stripped(data))

ContentExchanges(t) == {i \in 1..Len(net[t]) : ~IsListingUrl(net[t][i].url)}

\* the listing fetches and the content fetches thread t's operation has
\* issued so far: those answered and the one under way
ListingFetches(t) ==
    Cardinality(ListingExchanges(t))
        + (IF pc[t] = "getDirIndex" /\ net[t] = <<>> THEN 1 ELSE 0)
ContentFetches(t) ==
    Cardinality(ContentExchanges(t)) + (IF pc[t] = "open_getFile" THEN 1 ELSE 0)

\* C20: an operation issues at most one listing fetch and at most one
\* content fetch; a content fetch is issued by open only, for the path opened,
\* after the listing was obtained and the entry found in it; read, release,
\* list-directory and get-attributes issue none; after a fetch that failed
\* the operation issues nothing more and returns NotFound.
C20_SingleAttempt ==
    \A t \in Threads :
        /\ ListingFetches(t) <= 1
        /\ ContentFetches(t) <= 1
        /\ ContentFetches(t) = 1
           => /\ call[t].op = "open"
              /\ dirIndex[t] # NULL
              /\ find(dirIndex[t], Leaf(call[t].path)) # NULL
              /\ \A i \in ContentExchanges(t) :
                    /\ net[t][i].url = Url(call[t].path)
                    /\ \A j \in ListingExchanges(t) : j < i
        /\ call[t].op \in {"read", "release", "readDir", "getAttr"}
           => ContentFetches(t) = 0
        /\ (net[t] # <<>> /\ Last(net[t]).res # HTTP_OK)
           => pc[t] = "done" /\ ret[t].code = -ENOENT

\* C20 witness: an open has fetched the listing of /Airports once, then the
\* content once, which failed, and has returned NotFound
C20_Witness ==
    \E t \in Threads :
        /\ pc[t] = "done" /\ call[t].op = "open" /\ call[t].path = FilePath
        /\ Len(net[t]) = 2
        /\ IsListingUrl(net[t][1].url) /\ net[t][1].res = HTTP_OK
        /\ net[t][2].url = Url(FilePath) /\ net[t][2].res = HTTP_NOT_FOUND
        /\ ret[t].code = -ENOENT

====
